---- MODULE Spec2Model ----
(***************************************************************************)
(* Model of the DocuChatAPI database lifecycle layer: the connection, the  *)
(* engine (initialize / shutdown / sessions / create / drop / health), the *)
(* seeder, the manager, the migration manager, the setup orchestrator and  *)
(* the two command-line entry points (manage.py, setup_database.py).       *)
(*                                                                         *)
(* Every operation is an operator from a "world" record to a world record. *)
(* The world holds the database contents, the engine object's fields and   *)
(* the outcome of the call (raised exception, return value, health_info).  *)
(* A call that can fail for reasons outside the program (a query, a        *)
(* commit, a dispose ...) fails when its site is in the fault set F.       *)
(* An operation applied to a world in which an exception is propagating    *)
(* does not run: it returns that world, so a sequence of statements is a   *)
(* nest of calls and a try/except is a handler applied to the try block.   *)
(***************************************************************************)
EXTENDS Integers, Sequences, FiniteSets, TLC

\* ---------------------------------------------------------------- bounds
MaxFaults == 1

\* ------------------------------------------------------------- universes
CoreTables == {"user", "plan", "chat_session"}
PlanNames == {"free", "pro"}
Usernames == {"TestUser", "alice"}
Emails == {"test@example.com", "alice@example.com"}
None == "None"
Revisions == {"rev1", "rev2"}

FaultsOf(sites) == {F \in SUBSET sites : Cardinality(F) <= MaxFaults}

\* one failing call per process run, or none
SingleFault(sites) == {{}} \cup {{s} : s \in sites}

\* ------------------------------------------------------------ variables
VARIABLES
    tables,             \* tables present in the database
    plans,              \* rows of table plan (by unique name)
    users,              \* rows of table "user"
    sessions,           \* rows of table chat_session
    currentRev,         \* revision recorded in the database (alembic_version)
    headRev,            \* head revision of the migration scripts
    migrations_dir,     \* the migrations directory and its versions/ exist
    DB_SAFETY_ENABLED,  \* settings.database.DB_SAFETY_ENABLED
    is_initialized,     \* DatabaseEngine._is_initialized of the shared manager
    engine,             \* PostgresConnection.engine: "none", "live", "disposed"
    session_maker,      \* PostgresConnection.session_maker is set
    res,                \* outcome of the last operation
    cli,                \* outcome of the last command-line run
    runs                \* two concurrent seed runs: position and local values

vars == <<tables, plans, users, sessions, currentRev, headRev, migrations_dir,
          DB_SAFETY_ENABLED,
          is_initialized, engine, session_maker, res, cli, runs>>

\* ----------------------------------------------------------- exceptions
NoExc == [type |-> "none", code |-> "none"]

Exc(t) == [type |-> t, code |-> "none"]

Ok(w) == w.exc = NoExc

Raise(w, e) == [w EXCEPT !.exc = e]

Call(w, name) == IF Ok(w) THEN [w EXCEPT !.calls = Append(@, name)] ELSE w

\* Keyword parameters DatabaseException.__init__ accepts.
DatabaseExceptionParams == {"operation", "error_code", "details", "stack_trace"}

\* Keyword parameters of the initializer that super(ApiException, self)
\* resolves to (ApiException's own base, HTTPException).
HTTPExceptionParams == {"status_code", "detail", "headers"}

\* What `raise DatabaseException(**kwargs)` raises: binding an unknown keyword
\* is a TypeError, and so is the super(ApiException, self).__init__ call, which
\* skips ApiException.__init__ and passes error_detail= and message= on.
DatabaseException(kwargs, code) ==
    IF ~(kwargs \subseteq DatabaseExceptionParams)
    THEN Exc("TypeError")
    ELSE IF ~({"error_detail", "status_code", "message"} \subseteq HTTPExceptionParams)
    THEN Exc("TypeError")
    ELSE [type |-> "DatabaseException", code |-> code]

\* -------------------------------------------------------------- dicts
Put(d, k, v) == [x \in (DOMAIN d) \cup {k} |-> IF x = k THEN v ELSE d[x]]

Get(d, k, default) == IF k \in DOMAIN d THEN d[k] ELSE default

EmptyDict == [x \in {} |-> FALSE]

\* health_info as built at the top of health_check
HealthInfo0 ==
    [healthy |-> FALSE, checks |-> EmptyDict, metrics |-> EmptyDict, errors |-> <<>>]

NoPending == [called |-> FALSE, value |-> FALSE]

\* no UPDATE or DELETE statement executed in the open transaction
NoDml == [op |-> "none", ids |-> {}, total_tokens_used |-> 0]

\* ------------------------------------------------------------ the world
World ==
    [tables |-> tables, plans |-> plans, users |-> users, sessions |-> sessions,
     currentRev |-> currentRev, headRev |-> headRev,
     migrations_dir |-> migrations_dir,
     safety |-> DB_SAFETY_ENABLED,
     is_initialized |-> is_initialized, engine |-> engine,
     session_maker |-> session_maker,
     undisposed |-> IF engine = "live" THEN 1 ELSE 0,
     pend_plans |-> {}, pend_users |-> {}, pend_sessions |-> {}, dml |-> NoDml,
     ins |-> 0, del |-> 0, args |-> <<>>,
     exc |-> NoExc, ret |-> FALSE, calls |-> <<>>,
     hi |-> HealthInfo0, pending |-> NoPending]

\* The world of a freshly started process: a new DatabaseManager.
FreshWorld ==
    [World EXCEPT !.is_initialized = FALSE, !.engine = "none",
                  !.session_maker = FALSE, !.undisposed = 0]

Result(op, F, w) ==
    [op |-> op, F |-> F, exc |-> w.exc, ret |-> w.ret, calls |-> w.calls,
     hi |-> w.hi, pending |-> w.pending, ins |-> w.ins, del |-> w.del,
     args |-> w.args]

NoResult ==
    [op |-> "none", F |-> {}, exc |-> NoExc, ret |-> FALSE, calls |-> <<>>,
     hi |-> HealthInfo0, pending |-> NoPending, ins |-> 0, del |-> 0,
     args |-> <<>>]

\* ----------------------------------------------------- PostgresConnection
ConnectSites == {"connect"}
DisconnectSites == {"dispose"}

\* connect always creates a new engine and session maker; an engine the
\* connection held is replaced without being disposed
connect(w, F) ==
    IF "connect" \in F
    THEN Raise(w, Exc("ArgumentError"))
    ELSE [w EXCEPT !.engine = "live", !.session_maker = TRUE,
                   !.undisposed = @ + 1]

disconnect(w, F) ==
    IF w.engine # "none"
    THEN IF "dispose" \in F
         THEN Raise(w, Exc("OSError"))
         ELSE [w EXCEPT !.engine = "disposed",
                        !.undisposed = IF w.engine = "live" THEN @ - 1 ELSE @]
    ELSE w

\* --------------------------------------------------------- DatabaseEngine
initialize(w0, F) ==
    LET w == Call(w0, "initialize")
        c == connect(w, F)
    IN  IF ~Ok(w0) THEN w0
        ELSE IF Ok(c)
        THEN [c EXCEPT !.is_initialized = TRUE]
        ELSE LET d == IF w.engine # "none"
                      THEN disconnect([c EXCEPT !.exc = NoExc], F)
                      ELSE c
             IN  [d EXCEPT !.is_initialized = FALSE,
                           !.exc = DatabaseException(
                               {"message", "error_code", "stack_trace"},
                               "DB_INIT_FAILED")]

shutdown(w0, F) ==
    LET w == Call(w0, "shutdown")
        d == disconnect(w, F)
    IN  IF ~Ok(w0) THEN w0
        ELSE IF Ok(d)
        THEN [d EXCEPT !.is_initialized = FALSE]
        ELSE Raise(d, DatabaseException({"message", "error_code", "stack_trace"},
                                        "DB_SHUTDOWN_ERROR"))

SessionSites == {"exit_commit"}

\* `except Exception: await session.rollback(); raise`: rows added to the
\* session and statements executed in the transaction and not committed are
\* dropped, and the exception goes on
rollback(c) ==
    IF Ok(c) THEN c
    ELSE [c EXCEPT !.pend_plans = {}, !.pend_users = {}, !.pend_sessions = {},
                   !.dml = NoDml, !.calls = Append(@, "session.rollback")]

\* unique constraints: plan.name, user.username, user.email
UniqueViolation(w) ==
    \/ w.pend_plans \cap w.plans # {}
    \/ \E n \in w.pend_users : \E u \in w.users :
          u.username = n.username \/ u.email = n.email
    \/ \E m, n \in w.pend_users :
          m # n /\ (m.username = n.username \/ m.email = n.email)

\* the user rows after the UPDATE / DELETE executed in the transaction; the
\* user table has no check constraint, so any total_tokens_used is stored
DmlUsers(w) ==
    CASE w.dml.op = "update" ->
            {IF u.username \in w.dml.ids
             THEN [u EXCEPT !.total_tokens_used = w.dml.total_tokens_used]
             ELSE u : u \in w.users}
      [] w.dml.op = "delete" -> {u \in w.users : u.username \notin w.dml.ids}
      [] OTHER -> w.users

DmlSessions_mut(w) == w.sessions

\* chat_session.user_id: ForeignKey("user.id", ondelete="CASCADE")
DmlSessions(w) ==
    IF w.dml.op = "delete"
    THEN {c \in w.sessions : c.user_id \notin w.dml.ids}
    ELSE w.sessions

\* foreign keys (user.plan_id, chat_session.user_id) and the check constraints
\* of chat_session (total_messages >= 0, total_tokens >= 0)
ConstraintViolation(w) ==
    \/ \E n \in w.pend_users : n.plan_id \notin w.plans \cup w.pend_plans
    \/ \E c \in w.pend_sessions :
          \/ c.user_id \notin {u.username : u \in DmlUsers(w) \cup w.pend_users}
          \/ c.total_messages < 0
          \/ c.total_tokens < 0
          \/ \E d \in w.sessions : d.id = c.id

\* session.commit(): flush the pending rows, then commit
commit(w, site, F) ==
    IF site \in F
    THEN Raise(w, Exc("SQLAlchemyError"))
    ELSE IF UniqueViolation(w) \/ ConstraintViolation(w)
    THEN Raise(w, Exc("IntegrityError"))
    ELSE [w EXCEPT !.plans = @ \cup w.pend_plans,
                   !.users = DmlUsers(w) \cup w.pend_users,
                   !.sessions = DmlSessions(w) \cup w.pend_sessions,
                   !.del = @ + Cardinality(w.sessions \ DmlSessions(w)),
                   !.pend_plans = {}, !.pend_users = {}, !.pend_sessions = {},
                   !.dml = NoDml]

get_session_mut(w, F, b) ==
    IF ~w.is_initialized
    THEN Raise(w, DatabaseException({"message", "error_code"},
                                    "DB_ENGINE_NOT_INIT"))
    ELSE IF ~w.session_maker
    THEN Raise(w, DatabaseException({"error_code", "message"},
                                    "NO_DB_CONNECTION_DETECTED"))
    ELSE [(IF Ok(b)
           THEN commit(Call(b, "session.commit"), "exit_commit", F)
           ELSE b)
          EXCEPT !.calls = Append(@, "session.close")]

\* get_session is a context manager: b is the world the caller's block leaves
\* when it is run on w.  A block that returns early leaves the context without
\* an exception, so the commit after the yield still runs.
get_session(w, F, b) ==
    IF ~w.is_initialized
    THEN Raise(w, DatabaseException({"message", "error_code"},
                                    "DB_ENGINE_NOT_INIT"))
    ELSE IF ~w.session_maker
    THEN Raise(w, DatabaseException({"error_code", "message"},
                                    "NO_DB_CONNECTION_DETECTED"))
    ELSE [rollback(IF Ok(b)
                   THEN commit(Call(b, "session.commit"), "exit_commit", F)
                   ELSE b)
          EXCEPT !.calls = Append(@, "session.close")]

\* `if not self._is_initialized: await self.initialize()`
ensure_initialized(w, F) ==
    IF Ok(w) /\ ~w.is_initialized THEN initialize(w, F) ELSE w

CreateSites == {"create_all"} \cup ConnectSites \cup DisconnectSites

\* conn.run_sync(Base.metadata.create_all) and its except clauses
create_all(i, F) ==
    IF ~Ok(i) THEN i
    ELSE IF "create_all" \in F
    THEN Raise(i, DatabaseException({"message", "error_code"},
                                    "TABLE_CREATION_FAILED"))
    ELSE [i EXCEPT !.tables = @ \cup CoreTables]

create_tables(w0, F) ==
    IF ~Ok(w0) THEN w0
    ELSE create_all(ensure_initialized(Call(w0, "create_tables"), F), F)

DropSites == {"drop_all"} \cup ConnectSites \cup DisconnectSites

\* conn.run_sync(Base.metadata.drop_all) and its except clause
drop_all(i, F) ==
    IF ~Ok(i) THEN i
    ELSE IF "drop_all" \in F
    THEN Raise(i, DatabaseException({"message", "error_code"},
                                    "TABLE_DROP_FAILED"))
    ELSE [Call(i, "drop_all") EXCEPT !.tables = @ \ CoreTables,
                                     !.plans = {}, !.users = {}, !.sessions = {}]

drop_tables(w0, F) ==
    IF ~Ok(w0) THEN w0
    ELSE IF w0.safety
    THEN Raise(Call(w0, "drop_tables"),
               DatabaseException({"message", "error_code", "details"},
                                 "DB_SAFETY_ENABLED"))
    ELSE drop_all(ensure_initialized(Call(w0, "drop_tables"), F), F)

\* engine.py keeps an earlier DatabaseEngine: its initialize
engine_initialized(c) ==
    IF Ok(c)
    THEN [c EXCEPT !.is_initialized = TRUE]
    ELSE Raise(c, DatabaseException({"error_code", "message"}, "DB_INIT_FAILED"))

engine_initialize(w, F) ==
    IF w.is_initialized THEN w
    ELSE engine_initialized(connect(Call(w, "initialize"), F))

\* engine.py: a failed drop is wrapped in a RuntimeError
engine_drop_all(i, F) ==
    IF ~Ok(i) THEN i
    ELSE IF "drop_all" \in F
    THEN Raise(i, Exc("RuntimeError"))
    ELSE [Call(i, "drop_all") EXCEPT !.tables = @ \ CoreTables,
                                     !.plans = {}, !.users = {}, !.sessions = {}]

\* engine.py: drop_tables returns when the safety flag is set
engine_drop_tables(w0, F) ==
    IF w0.safety
    THEN Call(w0, "drop_tables")
    ELSE engine_drop_all(engine_initialize(Call(w0, "drop_tables"), F), F)

\* ------------------------------------------------------- MigrationManager
MigrationSites == {"script_dir", "sync_connect"}

\* get_current_revision: any failure is logged and None is returned
get_current_revision(w, F) ==
    IF "script_dir" \in F \/ "sync_connect" \in F
    THEN None
    ELSE w.currentRev

\* check_pending_migrations: current_rev != head_rev, and False on any failure
check_pending_migrations(w, F) ==
    IF "script_dir" \in F \/ "sync_connect" \in F
    THEN FALSE
    ELSE w.currentRev # w.headRev

\* ------------------------------------------------ DatabaseEngine.health_check
HealthSites ==
    {"select1", "tables_query", "migration_manager", "metrics_query"}
        \cup MigrationSites \cup SessionSites

AddError(h, e) == [h EXCEPT !.errors = Append(@, e)]

\* "Check if core tables exist"
health_tables(h, w, F) ==
    IF "tables_query" \in F
    THEN AddError([h EXCEPT !.checks = Put(@, "core_tables", FALSE)],
                  "Table check failed")
    ELSE LET found == w.tables \cap CoreTables
             h1 == [h EXCEPT !.checks = Put(@, "core_tables", Cardinality(found) >= 3),
                             !.metrics = Put(@, "existing_tables", found)]
         IN  IF Cardinality(found) < 3 THEN AddError(h1, "Missing tables") ELSE h1

health_migrations_mut(h, w, F) ==
    IF "migration_manager" \in F
    THEN AddError([h EXCEPT !.checks = Put(@, "migrations_current", FALSE)],
                  "Migration check failed")
    ELSE LET current_rev == get_current_revision(w, F)
             has_pending == check_pending_migrations(w, F)
             h1 == [h EXCEPT
                      !.checks = Put(@, "migrations_current", has_pending),
                      !.metrics = Put(Put(@, "current_revision", current_rev),
                                      "pending_migrations", has_pending)]
         IN  IF has_pending THEN AddError(h1, "Pending migrations detected") ELSE h1

\* "Check migration status"
health_migrations(h, w, F) ==
    IF "migration_manager" \in F
    THEN AddError([h EXCEPT !.checks = Put(@, "migrations_current", FALSE)],
                  "Migration check failed")
    ELSE LET current_rev == get_current_revision(w, F)
             has_pending == check_pending_migrations(w, F)
             h1 == [h EXCEPT
                      !.checks = Put(@, "migrations_current", ~has_pending),
                      !.metrics = Put(Put(@, "current_revision", current_rev),
                                      "pending_migrations", has_pending)]
         IN  IF has_pending THEN AddError(h1, "Pending migrations detected") ELSE h1

\* "Check database size and basic metrics"
health_metrics(h, F) ==
    IF "metrics_query" \in F
    THEN AddError(h, "Metrics collection failed")
    ELSE [h EXCEPT !.metrics = Put(Put(@, "database_size", "size"),
                                   "active_connections", 1)]

critical_checks == {"connectivity", "core_tables"}

overall_health_mut(h) ==
    [h EXCEPT !.healthy = \E c \in critical_checks : Get(h.checks, c, FALSE)]

\* "Overall health determination"
overall_health(h) ==
    [h EXCEPT !.healthy = \A c \in critical_checks : Get(h.checks, c, FALSE)]

health_probe_mut(s0, F) ==
    LET s == Call(s0, "select1")
    IN  IF "select1" \in F
        THEN [s EXCEPT !.hi = AddError([s.hi EXCEPT
                                          !.checks = Put(@, "connectivity", FALSE)],
                                       "Connectivity failed"),
                       !.ret = FALSE]
        ELSE [s EXCEPT !.hi = [s.hi EXCEPT
                                 !.checks = Put(@, "connectivity", TRUE),
                                 !.metrics = Put(@, "query_response_time", "t")],
                       !.ret = FALSE]

\* "Basic connectivity check"; ret = TRUE marks the early return
health_probe(s0, F) ==
    LET s == Call(s0, "select1")
    IN  IF "select1" \in F
        THEN [s EXCEPT !.hi = AddError([s.hi EXCEPT
                                          !.checks = Put(@, "connectivity", FALSE)],
                                       "Connectivity failed"),
                       !.ret = TRUE]
        ELSE [s EXCEPT !.hi = [s.hi EXCEPT
                                 !.checks = Put(@, "connectivity", TRUE),
                                 !.metrics = Put(@, "query_response_time", "t")],
                       !.ret = FALSE]

\* the checks that follow the connectivity probe p
health_checks(p, F) ==
    IF p.ret
    THEN [p EXCEPT !.ret = FALSE]
    ELSE [p EXCEPT
            !.hi = overall_health(
                       health_metrics(
                           health_migrations(health_tables(p.hi, p, F), p, F), F)),
            !.pending = [called |-> "migration_manager" \notin F,
                         value |-> "migration_manager" \notin F
                                      /\ check_pending_migrations(p, F)]]

\* the block of health_check that runs inside the session
health_body(s, F) == health_checks(health_probe(s, F), F)

\* the outer `except Exception` of health_check
health_check_except(r) ==
    IF Ok(r)
    THEN r
    ELSE [r EXCEPT !.exc = NoExc,
                   !.hi = [AddError(r.hi, "Health check failed")
                             EXCEPT !.healthy = FALSE]]

\* health_info as first built, then the session block
health_check_try(w, F) == get_session(w, F, health_body(w, F))

health_check(w0, F) ==
    IF ~Ok(w0) THEN w0
    ELSE health_check_except(
             health_check_try([Call(w0, "health_check") EXCEPT
                                  !.hi = HealthInfo0, !.pending = NoPending], F))

\* --------------------------------------------------------- DatabaseSeeder
SeedSites ==
    {"count_plans", "commit", "find_free_plan", "count_users", "hash_password"}
        \cup SessionSites

\* except Exception: KeyboardInterrupt and CancelledError are not caught
IsException(e) == e.type \notin {"none", "KeyboardInterrupt", "CancelledError"}

seed_plans_body_mut(s, F) ==
    IF "count_plans" \in F \/ "plan" \notin s.tables
    THEN Raise(s, Exc("SQLAlchemyError"))
    ELSE commit([s EXCEPT !.pend_plans = @ \cup {"free"}, !.ins = @ + 1],
                "commit", F)

\* the block of seed_plans that runs inside the session
seed_plans_body(s, F) ==
    IF "count_plans" \in F \/ "plan" \notin s.tables
    THEN Raise(s, Exc("SQLAlchemyError"))
    ELSE IF Cardinality(s.plans) > 0
    THEN s
    ELSE commit([s EXCEPT !.pend_plans = @ \cup {"free"}, !.ins = @ + 1],
                "commit", F)

\* the session of seed_plans
seed_plans_session(w, F) == get_session(w, F, seed_plans_body(w, F))

seed_plans(w0, F) ==
    IF ~Ok(w0) THEN w0 ELSE seed_plans_session(Call(w0, "seed_plans"), F)

\* User.validate_email: email.lower()
lower(email) == IF email = "Test@Example.com" THEN "test@example.com" ELSE email

\* the block of create_test_user that runs inside the session
create_test_user_body(s, F, username, email) ==
    IF "find_free_plan" \in F \/ "plan" \notin s.tables
    THEN Raise(s, Exc("SQLAlchemyError"))
    ELSE IF "free" \notin s.plans
    THEN Raise(s, DatabaseException({"error_code", "message"}, "NO_FREE_PLAN_FOUND"))
    ELSE IF "count_users" \in F \/ "user" \notin s.tables
    THEN Raise(s, Exc("SQLAlchemyError"))
    ELSE IF Cardinality({u \in s.users : u.email = email}) > 0
    THEN s
    ELSE IF "hash_password" \in F
    THEN Raise(s, Exc("ValueError"))
    ELSE commit([s EXCEPT !.pend_users = @ \cup {[username |-> username,
                                                   email |-> lower(email),
                                                   plan_id |-> "free",
                                                   total_tokens_used |-> 0]},
                          !.ins = @ + 1],
                "commit", F)

\* the session of create_test_user
create_test_user_session(w, F, username, email) ==
    get_session(w, F, create_test_user_body(w, F, username, email))

create_test_user(w0, F, username, email) ==
    IF ~Ok(w0) THEN w0
    ELSE create_test_user_session(Call(w0, "create_test_user"), F, username, email)

\* the `except Exception` of seed_all
seed_all_except(u) ==
    IF IsException(u.exc)
    THEN Raise(u, DatabaseException({"message", "error_code", "stack_trace"},
                                    "DB_SEEDING_FAILED"))
    ELSE u

seed_all(w0, F) ==
    IF ~Ok(w0) THEN w0
    ELSE seed_all_except(
             create_test_user(seed_plans(Call(w0, "seed_all"), F), F,
                              "TestUser", "test@example.com"))

\* ------------------------------------------- get_db_session, UserRepository
\* user_data dicts handed to the repository
UserData ==
    [username : Usernames, email : Emails, plan_id : {"free"},
     total_tokens_used : {-1, 5}]

\* ChatSession rows handed to session.add
ChatSessionData ==
    [id : {"s1", "s2"}, user_id : Usernames, total_messages : {-1, 0},
     total_tokens : {-1, 0}]

\* the columns of the seeded plans
PlanLimits(name) ==
    [token_limit_daily |-> 10000, document_limit |-> 5, session_limit |-> 1,
     price_monthly |-> 0]

RepoSites == {"execute"} \cup SessionSites

\* get_db_session: the request's session is the engine's get_session
get_db_session(w, F, b) == get_session(w, F, b)

\* User.validate_tokens
validate_tokens(tokens) == tokens >= 0

\* User(**user_data): the validators run on the given attributes
User(user_data) == [user_data EXCEPT !.email = lower(@)]

\* session.flush(): the pending INSERTs are sent and the constraints checked
flush(s, F) ==
    IF "execute" \in F \/ "user" \notin s.tables
    THEN Raise(s, Exc("SQLAlchemyError"))
    ELSE IF UniqueViolation(s) \/ ConstraintViolation(s)
    THEN Raise(s, Exc("IntegrityError"))
    ELSE s

\* session.execute(stmt) of an UPDATE or DELETE on the user table
execute(s, F, stmt) ==
    IF "execute" \in F \/ "user" \notin s.tables
    THEN Raise(s, Exc("SQLAlchemyError"))
    ELSE [s EXCEPT !.dml = stmt]

\* UserRepository.create
create(s, F, user_data) ==
    IF ~validate_tokens(user_data.total_tokens_used)
    THEN Raise(s, Exc("ValueError"))
    ELSE flush([s EXCEPT !.pend_users = @ \cup {User(user_data)}, !.ins = @ + 1], F)

\* UserRepository.create_many
create_many(s, F, us) ==
    IF \E i \in DOMAIN us : ~validate_tokens(us[i].total_tokens_used)
    THEN Raise(s, Exc("ValueError"))
    ELSE IF \E i, j \in DOMAIN us :
                i # j /\ (User(us[i]).username = User(us[j]).username
                             \/ User(us[i]).email = User(us[j]).email)
    THEN Raise(s, Exc("IntegrityError"))
    ELSE flush([s EXCEPT !.pend_users = @ \cup {User(us[i]) : i \in DOMAIN us},
                         !.ins = @ + Len(us)], F)

update_mut(s, F, user_id, data) ==
    IF ~validate_tokens(data.total_tokens_used)
    THEN Raise(s, Exc("ValueError"))
    ELSE execute(s, F, [op |-> "update", ids |-> {user_id},
                        total_tokens_used |-> data.total_tokens_used])

\* UserRepository.update: update(User).where(User.id == user_id).values(**data)
update(s, F, user_id, data) ==
    execute(s, F, [op |-> "update", ids |-> {user_id},
                   total_tokens_used |-> data.total_tokens_used])

\* UserRepository.delete
delete(s, F, user_id) ==
    execute(s, F, [op |-> "delete", ids |-> {user_id}, total_tokens_used |-> 0])

\* UserRepository.delete_many
delete_many(s, F, user_ids) ==
    execute(s, F, [op |-> "delete", ids |-> user_ids, total_tokens_used |-> 0])

\* session.add(ChatSession(...)) and flush
add_chat_session(s, F, row) ==
    flush([s EXCEPT !.pend_sessions = @ \cup {row}, !.ins = @ + 1], F)

\* -------------------------------------------------------- DatabaseManager
ManagerSites ==
    ConnectSites \cup DisconnectSites \cup {"create_all", "drop_all"}
        \cup SeedSites \cup HealthSites

\* `if with_seed_data: await self._seeder.seed_all()`
seed_if_requested(c, F, with_seed_data) ==
    IF with_seed_data THEN seed_all(c, F) ELSE c

\* `if not is_healthy: raise DatabaseException(...)`
require_healthy(h) ==
    IF Ok(h) /\ ~h.hi.healthy
    THEN Raise(h, DatabaseException({"message", "error_code"},
                                    "DB_HEALTH_CHECK_FAILED"))
    ELSE h

setup_database_try_mut(w, F, with_seed_data) ==
    require_healthy(
        health_check(
            create_tables(seed_if_requested(initialize(w, F), F, with_seed_data), F),
            F))

\* the try block of setup_database
setup_database_try(w, F, with_seed_data) ==
    require_healthy(
        health_check(
            seed_if_requested(create_tables(initialize(w, F), F), F, with_seed_data),
            F))

\* the raise that ends the except clause, reached when shutdown returned
setup_failed(d) ==
    IF Ok(d)
    THEN Raise(d, DatabaseException({"message", "error_code"}, "DB_SETUP_FAILED"))
    ELSE d

\* the `except Exception` of setup_database: shutdown, then raise
setup_database_except(r, F) ==
    IF IsException(r.exc)
    THEN setup_failed(shutdown([r EXCEPT !.exc = NoExc], F))
    ELSE r

setup_database(w0, F, with_seed_data) ==
    IF ~Ok(w0) THEN w0
    ELSE setup_database_except(
             setup_database_try(Call(w0, "setup_database"), F, with_seed_data), F)

\* the try block of reset_database
reset_database_try(w, F) ==
    seed_all(create_tables(drop_tables(ensure_initialized(w, F), F), F), F)

\* the `except Exception` of reset_database
reset_database_except(s) ==
    IF IsException(s.exc)
    THEN Raise(s, DatabaseException({"message", "error_code", "stack_trace"},
                                    "DB_RESET_FAILED"))
    ELSE s

reset_database(w0, F) ==
    IF ~Ok(w0) THEN w0
    ELSE reset_database_except(reset_database_try(Call(w0, "reset_database"), F))

\* ------------------------------------------------------ application lifespan
\* what a DatabaseManager has: its properties and methods
ManagerAttrs == {"engine", "seeder", "setup_database", "reset_database", "shutdown"}

\* app.py lifespan, the one create_app installs: setup_database() with its
\* default with_seed_data, the application's run, then shutdown
lifespan(w0, F) ==
    shutdown(setup_database(Call(w0, "lifespan"), F, TRUE), F)

\* the finally clause of config/app_config.py lifespan: shutdown, an error of
\* which is logged, and the startup's exception goes on
app_config_lifespan_finally(r, F) ==
    [shutdown([r EXCEPT !.exc = NoExc], F) EXCEPT !.exc = r.exc]

\* config/app_config.py lifespan: the try block up to the yield, then the
\* finally clause
app_config_lifespan(w0, F) ==
    app_config_lifespan_finally(
        IF "initialize_for_application" \notin ManagerAttrs
        THEN Raise(Call(w0, "app_config.lifespan"), Exc("AttributeError"))
        ELSE health_check(initialize(Call(w0, "app_config.lifespan"), F), F),
        F)

\* ------------------------------------------- MigrationManager (commands)
LastRevision == "rev2"

\* the revision id alembic gives the next script
NewRevision(head) == IF head = None THEN "rev1" ELSE LastRevision

\* the revision before rev, for `downgrade -1`
Previous(rev) == IF rev = "rev2" THEN "rev1" ELSE None

CommandSites == {"revision", "upgrade", "downgrade", "infra"}

\* create_migration: _validate_migration_setup, then command.revision with
\* autogenerate, which alembic refuses while the database is not at head
create_migration(w0, F) ==
    LET w == Call(w0, "create_migration")
    IN  IF ~Ok(w0) THEN w0
        ELSE IF ~w.migrations_dir
        THEN Raise(w, DatabaseException({"error_code", "message"},
                                        "MIGRATION_DIR_NOT_FOUND"))
        ELSE IF "revision" \in F \/ w.currentRev # w.headRev
        THEN Raise(w, DatabaseException({"message", "error_code", "stack_trace"},
                                        "MIGRATION_CREATION_FAILED"))
        ELSE [w EXCEPT !.headRev = NewRevision(w.headRev)]

upgrade(w0, F, revision) ==
    LET w == Call(w0, "upgrade")
    IN  IF ~Ok(w0) THEN w0
        ELSE IF "upgrade" \in F
        THEN Raise(w, DatabaseException({"message", "error_code", "stack_trace"},
                                        "DB_UPDATE_FAILED"))
        ELSE [w EXCEPT !.currentRev = IF revision = "head" THEN w.headRev
                                      ELSE revision]

downgrade(w0, F, revision) ==
    LET w == Call(w0, "downgrade")
    IN  IF ~Ok(w0) THEN w0
        ELSE IF "downgrade" \in F
        THEN Raise(w, DatabaseException({"message", "error_code", "stack_trace"},
                                        "DB_DOWNGRADE_FAILED"))
        ELSE [w EXCEPT !.currentRev = IF revision = "-1" THEN Previous(w.currentRev)
                                      ELSE revision]

\* MigrationSetup.setup_migration_infrastructure
setup_migration_infrastructure(w0, F) ==
    LET w == Call(w0, "setup_migration_infrastructure")
    IN  IF ~Ok(w0) THEN w0
        ELSE IF "infra" \in F
        THEN Raise(w, DatabaseException({"message", "error_code", "stack_trace"},
                                        "SETUP_MIGRATION_INFRA_FAILED"))
        ELSE [w EXCEPT !.migrations_dir = TRUE]

\* ------------------------------------------------ DatabaseSetupOrchestrator
\* attributes the orchestrator's __init__ sets
OrchestratorAttrs == {"_db_manager", "migration_manager", "_migration_setup"}

\* orchestrator.<name>: AttributeError when __init__ sets no such attribute
GetAttr(w, name) ==
    IF name \in OrchestratorAttrs THEN w ELSE Raise(w, Exc("AttributeError"))

create_initial_migration(w0, F) ==
    create_migration(initialize(Call(w0, "create_initial_migration"), F), F)

\* `if has_pending: self.migration_manager.upgrade()`
upgrade_if_pending(w, F) ==
    IF Ok(w) /\ check_pending_migrations(w, F) THEN upgrade(w, F, "head") ELSE w

apply_migrations(w0, F) == upgrade_if_pending(Call(w0, "apply_migrations"), F)

\* show_status: everything runs inside try/except Exception, with a second
\* health_check as the fallback; health_check itself raises nothing
show_status(w0, F) == health_check(Call(w0, "show_status"), F)

cleanup_except_mut(d) == d

\* the `except Exception` of cleanup: the failure is logged
cleanup_except(d) == [d EXCEPT !.exc = NoExc]

\* cleanup: shutdown of the manager; called with no exception in flight
cleanup(w0, F) == cleanup_except(shutdown(Call(w0, "cleanup"), F))

\* ---------------------------------------------------------------- manage.py
DbCommands ==
    {"init", "migrate", "upgrade", "downgrade", "status", "history", "reset",
     "health", "seed"}

TypedTexts == {"DELETE-ALL-DATA", "yes"}

CliArgs ==
    [confirm : BOOLEAN, typed : TypedTexts, skip_plans : BOOLEAN,
     skip_users : BOOLEAN, interrupt : BOOLEAN]

CliSites == ManagerSites \cup CommandSites

\* `await x` where x is the result of a plain (non-async) method
AwaitPlainValue(w) == IF Ok(w) THEN Raise(w, Exc("TypeError")) ELSE w

\* get_migration_history: the walked revisions, [] on any failure
HasHistory(w, F) == "script_dir" \notin F /\ w.headRev # None

reset_command_mut(w, F, a) ==
    LET p == Call(w, "input")
    IN  IF a.interrupt
        THEN Raise(p, Exc("KeyboardInterrupt"))
        ELSE IF a.confirm
        THEN reset_database(Call(p, "orchestrator.reset_database"), F)
        ELSE Call(p, "cancelled")

\* the `reset` branch of run()
reset_command(w, F, a) ==
    IF ~a.confirm
    THEN Raise(w, DatabaseException({"message", "error_code", "details"},
                                    "NO_DB_RESET_CONFIRMATION"))
    ELSE LET p == Call(w, "input")
         IN  IF a.interrupt
             THEN Raise(p, Exc("KeyboardInterrupt"))
             ELSE IF a.typed = "DELETE-ALL-DATA"
             THEN reset_database(Call(p, "orchestrator.reset_database"), F)
             ELSE Call(p, "cancelled")

\* `if not args.skip_plans: await seeder.seed_plans()`
seed_plans_unless(skip, g, F) == IF skip THEN g ELSE seed_plans(g, F)

\* `if not args.skip_users: await seeder.create_test_user()`
create_test_user_unless(skip, p, F) ==
    IF skip THEN p ELSE create_test_user(p, F, "TestUser", "test@example.com")

\* the `seed` branch of run()
seed_command(w, F, a) ==
    create_test_user_unless(
        a.skip_users,
        seed_plans_unless(a.skip_plans, GetAttr(w, "database_manager"), F), F)

\* the `health` branch of run()
health_command(w, F) == health_check(GetAttr(w, "database_manager"), F)

\* the `init` branch of run()
init_command(w, F) ==
    create_initial_migration(
        setup_database(
            Call(setup_migration_infrastructure(w, F), "initialize_database"),
            F, TRUE),
        F)

\* the try block of run(): the branch of the given db subcommand
run_body(w, F, cmd, a) ==
    IF a.interrupt /\ cmd # "reset"
    THEN Raise(w, Exc("KeyboardInterrupt"))
    ELSE CASE cmd = "init" -> init_command(w, F)
           [] cmd = "migrate" -> AwaitPlainValue(create_migration(w, F))
           [] cmd = "upgrade" -> AwaitPlainValue(upgrade(w, F, "head"))
           [] cmd = "downgrade" -> AwaitPlainValue(downgrade(w, F, "-1"))
           [] cmd = "status" -> show_status(w, F)
           [] cmd = "history" -> Call(w, IF HasHistory(w, F) THEN "history"
                                         ELSE "no_history")
           [] cmd = "health" -> health_command(w, F)
           [] cmd = "seed" -> seed_command(w, F, a)
           [] cmd = "reset" -> reset_command(w, F, a)

\* exception classes that are OSError (IOError is its alias)
IOErrors == {"OSError"}

\* which except clause of run() takes the exception
handler_of(e) ==
    IF e.type = "none" THEN "none"
    ELSE IF e.type = "DatabaseException" THEN "DatabaseException"
    ELSE IF e.type \in IOErrors THEN "IOError"
    ELSE IF e.type = "KeyboardInterrupt" THEN "KeyboardInterrupt"
    ELSE "Exception"

exit_code_of_mut(e) ==
    IF handler_of(e) \in {"none", "KeyboardInterrupt", "Exception"} THEN 0 ELSE 1

\* the exit code the except clause sets
exit_code_of(e) ==
    IF handler_of(e) \in {"none", "KeyboardInterrupt"} THEN 0 ELSE 1

NoCli ==
    [entry |-> "none", cmd |-> "none", confirm |-> FALSE, typed |-> "",
     interrupt |-> FALSE, raised |-> NoExc, handler |-> "none", exit_code |-> 0,
     engine |-> "none", with_seed_data |-> FALSE, faults |-> 0,
     undisposed |-> 0]

\* how the process ends, given the try block's outcome b and the outcome c of
\* the cleanup in finally: an exception leaving the finally leaves run() and
\* is taken by `except Exception: sys.exit(1)` around asyncio.run
run_exit(b, c, cmd, a) ==
    [w |-> c,
     cli |-> [entry |-> "manage.py", cmd |-> cmd, confirm |-> a.confirm,
              typed |-> a.typed, interrupt |-> a.interrupt,
              raised |-> b.exc, handler |-> handler_of(b.exc),
              exit_code |-> IF Ok(c) THEN exit_code_of(b.exc) ELSE 1,
              engine |-> c.engine, with_seed_data |-> TRUE, faults |-> 0,
              undisposed |-> c.undisposed]]

\* the except clauses and the finally of run(), given the try block's outcome b
run_finally(b, F, cmd, a) ==
    run_exit(b, cleanup([b EXCEPT !.exc = NoExc], F), cmd, a)

\* run(): try block, except clauses, finally cleanup
run(w, F, cmd, a) == run_finally(run_body(w, F, cmd, a), F, cmd, a)

\* ------------------------------------------------ scripts/setup_database.py
ScriptModes == {"status", "apply_migrations", "migrations_only", "full"}

ScriptArgs == [mode : ScriptModes, reset : BOOLEAN, no_seed : BOOLEAN]

\* the `except Exception` around create_initial_migration: only logged
initial_migration_except(m) ==
    IF IsException(m.exc) THEN [m EXCEPT !.exc = NoExc] ELSE m

\* "Create initial migration if it doesn't exist"
initial_migration_step(w, F) ==
    IF ~Ok(w) THEN w ELSE initial_migration_except(create_initial_migration(w, F))

\* `if args.reset: reset_database() else: initialize_database(...)`
reset_or_initialize(m, F, a) ==
    IF a.reset
    THEN reset_database(Call(m, "orchestrator.reset_database"), F)
    ELSE setup_database(Call(m, "initialize_database"), F, ~a.no_seed)

\* the full setup process of main()
full_setup(w, F, a) ==
    show_status(
        apply_migrations(
            initial_migration_step(
                reset_or_initialize(setup_migration_infrastructure(w, F), F, a), F),
            F),
        F)

\* the try block of main()
script_body(w, F, a) ==
    CASE a.mode = "status" -> show_status(w, F)
      [] a.mode = "apply_migrations" -> show_status(apply_migrations(w, F), F)
      [] a.mode = "migrations_only" ->
            create_initial_migration(setup_migration_infrastructure(w, F), F)
      [] a.mode = "full" -> full_setup(w, F, a)

\* how the script ends, given the try block's outcome b and the outcome c of
\* the cleanup in finally (sys.exit(1) on Exception, also around asyncio.run)
script_exit(b, c, a) ==
    [w |-> c,
     cli |-> [entry |-> "setup_database.py",
              cmd |-> IF a.reset THEN "reset" ELSE a.mode,
              confirm |-> FALSE, typed |-> "", interrupt |-> FALSE,
              raised |-> b.exc,
              handler |-> IF IsException(b.exc) THEN "Exception" ELSE "none",
              exit_code |-> IF IsException(b.exc) \/ ~Ok(c) THEN 1 ELSE 0,
              engine |-> c.engine, with_seed_data |-> ~a.no_seed, faults |-> 0,
              undisposed |-> c.undisposed]]

\* the except clauses and the finally of main()
script_finally(b, F, a) ==
    script_exit(b, cleanup([b EXCEPT !.exc = NoExc], F), a)

\* main(): try block, except clauses, finally cleanup
script_main(w, F, a) == script_finally(script_body(w, F, a), F, a)

\* ------------------------------------------------------------------ actions
\* The state after an operation of the application's shared DatabaseManager.
Apply(op, F, w) ==
    /\ tables' = w.tables
    /\ plans' = w.plans
    /\ users' = w.users
    /\ sessions' = w.sessions
    /\ currentRev' = w.currentRev
    /\ headRev' = w.headRev
    /\ migrations_dir' = w.migrations_dir
    /\ is_initialized' = w.is_initialized
    /\ engine' = w.engine
    /\ session_maker' = w.session_maker
    /\ res' = Result(op, F, w)
    /\ cli' = NoCli
    /\ UNCHANGED <<DB_SAFETY_ENABLED, runs>>

\* The state after a command-line process, which builds its own orchestrator
\* and manager and leaves the application's manager as it was.
ApplyCli(r, F) ==
    /\ tables' = r.w.tables
    /\ plans' = r.w.plans
    /\ users' = r.w.users
    /\ sessions' = r.w.sessions
    /\ currentRev' = r.w.currentRev
    /\ headRev' = r.w.headRev
    /\ migrations_dir' = r.w.migrations_dir
    /\ res' = Result(r.cli.entry, {}, r.w)
    /\ cli' = [r.cli EXCEPT !.faults = Cardinality(F)]
    /\ UNCHANGED <<is_initialized, engine, session_maker, DB_SAFETY_ENABLED,
                   runs>>

Init ==
    /\ tables = {}
    /\ plans = {}
    /\ users = {}
    /\ sessions = {}
    /\ currentRev = None
    /\ headRev = None
    /\ migrations_dir = FALSE
    /\ DB_SAFETY_ENABLED \in BOOLEAN
    /\ is_initialized = FALSE
    /\ engine = "none"
    /\ session_maker = FALSE
    /\ res = NoResult
    /\ cli = NoCli
    /\ runs = [p \in {1, 2} |->
                 [pc |-> "seed_plans", count |-> 0, plan_id |-> None,
                  exc |-> NoExc]]

Initialize ==
    \E F \in FaultsOf(ConnectSites \cup DisconnectSites) :
        Apply("initialize", F, initialize(World, F))

Shutdown ==
    \E F \in FaultsOf(DisconnectSites) :
        Apply("shutdown", F, shutdown(World, F))

CreateTables ==
    \E F \in FaultsOf(CreateSites) :
        Apply("create_tables", F, create_tables(World, F))

DropTables ==
    \E F \in FaultsOf(DropSites) :
        Apply("drop_tables", F, drop_tables(World, F))

EngineDropTables ==
    \E F \in FaultsOf(DropSites) :
        Apply("engine.drop_tables", F, engine_drop_tables(World, F))

HealthCheck ==
    \E F \in SUBSET HealthSites :
        Apply("health_check", F, health_check(World, F))

CheckPendingMigrations ==
    \E F \in SUBSET MigrationSites :
        Apply("check_pending_migrations", F,
              [World EXCEPT !.ret = check_pending_migrations(World, F)])

SeedPlans ==
    \E F \in FaultsOf(SeedSites) :
        Apply("seed_plans", F, seed_plans(World, F))

CreateTestUser ==
    \E F \in FaultsOf(SeedSites) : \E username \in Usernames :
      \E email \in Emails \cup {"Test@Example.com"} :
        Apply("create_test_user", F,
              create_test_user([World EXCEPT !.args = <<username, email>>], F,
                               username, email))

SeedAll ==
    \E F \in FaultsOf(SeedSites) :
        Apply("seed_all", F, seed_all(World, F))

SetupDatabase ==
    \E F \in FaultsOf(ManagerSites \ {"drop_all"}) : \E with_seed_data \in BOOLEAN :
        Apply("setup_database", F, setup_database(World, F, with_seed_data))

ResetDatabase ==
    \E F \in FaultsOf(ManagerSites \ HealthSites) :
        Apply("reset_database", F, reset_database(World, F))

\* the application started and stopped with app.py's lifespan
Lifespan ==
    \E F \in FaultsOf(ManagerSites \ {"drop_all"}) :
        Apply("lifespan", F, lifespan(World, F))

\* the application started and stopped with config/app_config.py's lifespan
AppConfigLifespan ==
    \E F \in FaultsOf(ConnectSites \cup DisconnectSites \cup HealthSites) :
        Apply("app_config.lifespan", F, app_config_lifespan(World, F))

\* fault sites a db subcommand can touch
SitesOf(cmd) ==
    CASE cmd = "init" -> CliSites \ {"drop_all", "upgrade", "downgrade"}
      [] cmd = "migrate" -> {"revision"} \cup DisconnectSites
      [] cmd = "upgrade" -> {"upgrade"} \cup DisconnectSites
      [] cmd = "downgrade" -> {"downgrade"} \cup DisconnectSites
      [] cmd = "status" -> HealthSites \cup DisconnectSites
      [] cmd = "history" -> {"script_dir"} \cup DisconnectSites
      [] cmd = "health" -> HealthSites \cup DisconnectSites
      [] cmd = "seed" -> SeedSites \cup DisconnectSites
      [] cmd = "reset" -> ManagerSites \ HealthSites

\* argument combinations that matter to a db subcommand
ArgsOf(cmd) ==
    {a \in CliArgs :
        /\ cmd # "reset" => a.confirm /\ a.typed = "yes"
        /\ cmd # "seed" => ~a.skip_plans /\ ~a.skip_users}

CreatesMigration(cmd) == cmd \in {"init", "migrate", "migrations_only", "full"}

ManageCli ==
    \E cmd \in DbCommands : \E a \in ArgsOf(cmd) : \E F \in SingleFault(SitesOf(cmd)) :
        /\ CreatesMigration(cmd) => headRev # LastRevision
        /\ ApplyCli(run(FreshWorld, F, cmd, a), F)

ScriptSites(a) ==
    CASE a.mode = "status" -> HealthSites \cup DisconnectSites
      [] a.mode = "apply_migrations" ->
            HealthSites \cup DisconnectSites \cup {"upgrade"}
      [] a.mode = "migrations_only" ->
            {"infra", "revision"} \cup ConnectSites \cup DisconnectSites
      [] a.mode = "full" -> CliSites \ {"downgrade"}

SetupScript ==
    \E a \in ScriptArgs : \E F \in SingleFault(ScriptSites(a)) :
        /\ a.mode # "full" => ~a.reset /\ ~a.no_seed
        /\ CreatesMigration(a.mode) => headRev # LastRevision
        /\ ApplyCli(script_main(FreshWorld, F, a), F)

\* an operator edits the settings between runs
SetSafety ==
    /\ DB_SAFETY_ENABLED' = ~DB_SAFETY_ENABLED
    /\ res' = NoResult
    /\ cli' = NoCli
    /\ UNCHANGED <<tables, plans, users, sessions, currentRev, headRev, migrations_dir,
                   is_initialized, engine, session_maker, runs>>

\* direct use of the migration manager (alembic commands)
CreateMigration ==
    \E F \in FaultsOf({"revision"}) :
        /\ headRev # LastRevision
        /\ Apply("create_migration", F, create_migration(World, F))

Upgrade ==
    \E F \in FaultsOf({"upgrade"}) :
        Apply("upgrade", F, upgrade(World, F, "head"))

Downgrade ==
    \E F \in FaultsOf({"downgrade"}) :
        Apply("downgrade", F, downgrade(World, F, "-1"))

SetupMigrationInfrastructure ==
    \E F \in FaultsOf({"infra"}) :
        Apply("setup_migration_infrastructure", F,
              setup_migration_infrastructure(World, F))

\* requests through the repository
RepoCreate ==
    \E F \in FaultsOf(RepoSites) : \E user_data \in UserData :
        Apply("create", F, get_db_session(Call(World, "create"), F,
                             create(Call(World, "create"), F, user_data)))

RepoCreateMany ==
    \E F \in FaultsOf(RepoSites) : \E a, b \in UserData :
        Apply("create_many", F,
              get_db_session(Call(World, "create_many"), F,
                             create_many(Call(World, "create_many"), F, <<a, b>>)))

RepoUpdate ==
    \E F \in FaultsOf(RepoSites) : \E user_id \in Usernames :
      \E data \in [total_tokens_used : {-1, 5}] :
        Apply("update", F,
              get_db_session(Call(World, "update"), F,
                             update(Call(World, "update"), F, user_id, data)))

RepoDelete ==
    \E F \in FaultsOf(RepoSites) : \E user_id \in Usernames :
        Apply("delete", F, get_db_session(Call(World, "delete"), F,
                                           delete(Call(World, "delete"), F, user_id)))

RepoDeleteMany ==
    \E F \in FaultsOf(RepoSites) : \E user_ids \in SUBSET Usernames :
        Apply("delete_many", F,
              get_db_session(Call(World, "delete_many"), F,
                             delete_many(Call(World, "delete_many"), F, user_ids)))

AddChatSession ==
    \E F \in FaultsOf(RepoSites) : \E row \in ChatSessionData :
        Apply("add_chat_session", F,
              get_db_session(Call(World, "add_chat_session"), F,
                             add_chat_session(Call(World, "add_chat_session"), F, row)))

\* ------------------------------------------------ two concurrent seed runs
\* Each run is seed_plans followed by create_test_user, each in its own
\* session; a step is one round trip to the database, which sees the rows
\* committed so far.

\* seed_plans: SELECT COUNT(*) FROM plan
seed_plans_count(p) ==
    /\ runs[p].pc = "seed_plans"
    /\ is_initialized /\ CoreTables \subseteq tables
    /\ runs' = [runs EXCEPT ![p].pc = "plans_counted",
                            ![p].count = Cardinality(plans)]
    /\ UNCHANGED <<tables, plans, users, sessions, currentRev, headRev,
                   migrations_dir, DB_SAFETY_ENABLED, is_initialized, engine,
                   session_maker, res, cli>>

\* seed_plans: `if count > 0: return`, else add_all and commit; an exception
\* leaves the run
seed_plans_insert(p) ==
    /\ runs[p].pc = "plans_counted"
    /\ is_initialized /\ CoreTables \subseteq tables
    /\ LET w == IF runs[p].count > 0
                THEN World
                ELSE get_session(World, {},
                         commit([World EXCEPT !.pend_plans = {"free"}],
                                "commit", {}))
       IN  /\ plans' = w.plans
           /\ runs' = [runs EXCEPT
                         ![p].pc = IF Ok(w) THEN "create_test_user" ELSE "failed",
                         ![p].exc = w.exc]
    /\ UNCHANGED <<tables, users, sessions, currentRev, headRev,
                   migrations_dir, DB_SAFETY_ENABLED, is_initialized, engine,
                   session_maker, res, cli>>

\* create_test_user: SELECT id FROM plan WHERE name = 'free', then
\* SELECT COUNT(*) FROM "user" WHERE email = :email
create_test_user_count(p) ==
    /\ runs[p].pc = "create_test_user"
    /\ is_initialized /\ CoreTables \subseteq tables
    /\ runs' = [runs EXCEPT
                  ![p].pc = "users_counted",
                  ![p].plan_id = IF "free" \in plans THEN "free" ELSE None,
                  ![p].count =
                      Cardinality({u \in users : u.email = "test@example.com"})]
    /\ UNCHANGED <<tables, plans, users, sessions, currentRev, headRev,
                   migrations_dir, DB_SAFETY_ENABLED, is_initialized, engine,
                   session_maker, res, cli>>

\* create_test_user: `if not plan_id: raise`, `if count > 0: return`, else add
\* the user and commit
create_test_user_insert(p) ==
    /\ runs[p].pc = "users_counted"
    /\ is_initialized /\ CoreTables \subseteq tables
    /\ LET w == IF runs[p].plan_id = None
                THEN get_session(World, {},
                         Raise(World, DatabaseException({"error_code", "message"},
                                                        "NO_FREE_PLAN_FOUND")))
                ELSE IF runs[p].count > 0
                THEN World
                ELSE get_session(World, {},
                         commit([World EXCEPT !.pend_users =
                                    {[username |-> "TestUser",
                                      email |-> lower("test@example.com"),
                                      plan_id |-> runs[p].plan_id,
                                      total_tokens_used |-> 0]}],
                                "commit", {}))
       IN  /\ users' = w.users
           /\ runs' = [runs EXCEPT ![p].pc = IF Ok(w) THEN "done" ELSE "failed",
                                   ![p].exc = w.exc]
    /\ UNCHANGED <<tables, plans, sessions, currentRev, headRev,
                   migrations_dir, DB_SAFETY_ENABLED, is_initialized, engine,
                   session_maker, res, cli>>

\* --------------------------------------------------------- specifications
\* two seed runs side by side on the application's manager
NextRace ==
    \/ Initialize
    \/ CreateTables
    \/ \E p \in {1, 2} : seed_plans_count(p)
    \/ \E p \in {1, 2} : seed_plans_insert(p)
    \/ \E p \in {1, 2} : create_test_user_count(p)
    \/ \E p \in {1, 2} : create_test_user_insert(p)

SpecRace == Init /\ [][NextRace]_vars

\* the repository on the application's manager
NextRepo ==
    \/ Initialize
    \/ Shutdown
    \/ CreateTables
    \/ SeedPlans
    \/ RepoCreate
    \/ RepoCreateMany
    \/ RepoUpdate
    \/ RepoDelete
    \/ RepoDeleteMany
    \/ AddChatSession

SpecRepo == Init /\ [][NextRepo]_vars

\* the seeder on the application's manager
NextSeed ==
    \/ Initialize
    \/ Shutdown
    \/ CreateTables
    \/ DropTables
    \/ SeedPlans
    \/ CreateTestUser
    \/ SeedAll
    \/ SetSafety

SpecSeed == Init /\ [][NextSeed]_vars

\* health and migration status
NextHealth ==
    \/ Initialize
    \/ Shutdown
    \/ CreateTables
    \/ HealthCheck
    \/ CheckPendingMigrations
    \/ SetupMigrationInfrastructure
    \/ CreateMigration
    \/ Upgrade
    \/ Downgrade

SpecHealth == Init /\ [][NextHealth]_vars

\* the manager's setup and reset
NextManager ==
    \/ Initialize
    \/ Shutdown
    \/ DropTables
    \/ EngineDropTables
    \/ SetupDatabase
    \/ ResetDatabase
    \/ Lifespan
    \/ AppConfigLifespan
    \/ SetSafety

SpecManager == Init /\ [][NextManager]_vars

\* the command-line entry points
NextCli ==
    \/ ManageCli
    \/ SetupScript
    \/ SetSafety

SpecCli == Init /\ [][NextCli]_vars

\* ------------------------------------------------------------ properties
InSeq(x, seq) == \E i \in DOMAIN seq : seq[i] = x

\* positions of x in seq
At(x, seq) == {i \in DOMAIN seq : seq[i] = x}

\* every y in seq comes after some x
Before(x, y, seq) == \A j \in At(y, seq) : \E i \in At(x, seq) : i < j

TestUserRow ==
    [username |-> "TestUser", email |-> "test@example.com", plan_id |-> "free",
     total_tokens_used |-> 0]

\* C1: a seed_all run that directly follows a successful seed_all run adds no
\* row to the session, leaves the plan rows and the user rows as they were,
\* and, when no call fails underneath it, raises nothing.
C1_SeedIdempotent ==
    [][(res.op = "seed_all" /\ res.exc = NoExc /\ res'.op = "seed_all")
          => /\ res'.ins = 0
             /\ plans' = plans
             /\ users' = users
             /\ Cardinality(plans') = Cardinality(plans)
             /\ Cardinality(users') = Cardinality(users)
             /\ (res'.F = {} => res'.exc = NoExc)]_vars

\* C1 witness: a successful seed_all run that found the seed data in place
C1_Witness ==
    /\ res.op = "seed_all"
    /\ res.exc = NoExc
    /\ res.ins = 0
    /\ plans = {"free"}
    /\ TestUserRow \in users

\* C2: when SELECT 1 fails inside health_check the result is unhealthy with
\* connectivity false, and no other check or metric has an entry.
C2_ConnectivityFailure ==
    (res.op = "health_check" /\ InSeq("select1", res.calls) /\ "select1" \in res.F)
        => /\ res.hi.healthy = FALSE
           /\ DOMAIN res.hi.checks = {"connectivity"}
           /\ res.hi.checks["connectivity"] = FALSE
           /\ DOMAIN res.hi.metrics = {}

\* C2 witness: the probe failed on a database whose tables exist and whose
\* migrations are pending
C2_Witness ==
    /\ res.op = "health_check"
    /\ InSeq("select1", res.calls)
    /\ "select1" \in res.F
    /\ tables = CoreTables
    /\ currentRev # headRev

BothCritical(h) ==
    Get(h.checks, "connectivity", FALSE) /\ Get(h.checks, "core_tables", FALSE)

\* C3 as stated: healthy is true exactly when connectivity and core_tables
\* are both true.
C3_Original ==
    res.op = "health_check" => (res.hi.healthy <=> BothCritical(res.hi))

\* C3 amended: healthy is true exactly when connectivity and core_tables are
\* both true and leaving the session raised nothing (no "Health check failed"
\* error); the migration check and the metrics have no part in it.
C3_HealthyIffCritical ==
    res.op = "health_check"
        => (res.hi.healthy <=>
                (BothCritical(res.hi) /\ ~InSeq("Health check failed", res.hi.errors)))

\* C3 witness: both critical checks passed, the commit on leaving the session
\* failed, and the result is unhealthy
C3_Witness ==
    /\ res.op = "health_check"
    /\ BothCritical(res.hi)
    /\ InSeq("Health check failed", res.hi.errors)
    /\ ~res.hi.healthy

\* C4: when the migration check of health_check obtains the pending flag,
\* metrics.pending_migrations is that flag, checks.migrations_current is its
\* negation, and errors has "Pending migrations detected" exactly when it is true.
C4_PendingSurfaced ==
    (res.op = "health_check" /\ res.pending.called)
        => /\ "pending_migrations" \in DOMAIN res.hi.metrics
           /\ res.hi.metrics["pending_migrations"] = res.pending.value
           /\ "migrations_current" \in DOMAIN res.hi.checks
           /\ res.hi.checks["migrations_current"] = ~res.pending.value
           /\ (InSeq("Pending migrations detected", res.hi.errors)
                  <=> res.pending.value)

\* C4 witness: a health check that found migrations pending
C4_Witness ==
    /\ res.op = "health_check"
    /\ res.pending.called
    /\ res.pending.value

\* C5: check_pending_migrations returns true exactly when the recorded
\* revision differs from the head revision of the migration scripts, and
\* false exactly when the two are equal.
C5_PendingIffDiffer ==
    res.op = "check_pending_migrations" => (res.ret <=> currentRev # headRev)

ManageReset == cli.entry = "manage.py" /\ cli.cmd = "reset"

ResetCalled == InSeq("orchestrator.reset_database", res.calls)

\* C6: in manage.py db reset, reset_database is called only with --confirm
\* and the typed text DELETE-ALL-DATA; without --confirm the run exits 1
\* before prompting; with another typed text it cancels, resets nothing, exits 0.
C6_ResetGate ==
    ManageReset
        => /\ ResetCalled => (cli.confirm /\ cli.typed = "DELETE-ALL-DATA")
           /\ ~cli.confirm =>
                 (cli.exit_code = 1 /\ ~InSeq("input", res.calls) /\ ~ResetCalled)
           /\ (cli.confirm /\ ~cli.interrupt /\ cli.typed # "DELETE-ALL-DATA") =>
                 (InSeq("cancelled", res.calls) /\ ~ResetCalled /\ cli.exit_code = 0)

\* C6 witness: --confirm was given, another text was typed, the run cancelled
C6_Witness ==
    /\ ManageReset
    /\ cli.confirm
    /\ cli.typed = "yes"
    /\ InSeq("cancelled", res.calls)
    /\ cli.exit_code = 0

\* C7: a command-line run drops the tables only after an explicit
\* confirmation by the user (for either entry point).
C7_DropOnlyConfirmed ==
    (cli.entry # "none" /\ InSeq("drop_all", res.calls))
        => (cli.confirm /\ cli.typed = "DELETE-ALL-DATA")

SafetyRefusal == [type |-> "DatabaseException", code |-> "DB_SAFETY_ENABLED"]

\* C8: while DB_SAFETY_ENABLED is true drop_tables drops nothing, opens no
\* connection and raises a DatabaseException coded DB_SAFETY_ENABLED, and
\* reset_database fails before it recreates tables or seeds.
C8_SafetyRefusal ==
    /\ (DB_SAFETY_ENABLED /\ res.op \in {"drop_tables", "engine.drop_tables"})
          => /\ ~InSeq("drop_all", res.calls)
             /\ ~InSeq("initialize", res.calls)
             /\ res.exc = SafetyRefusal
    /\ (DB_SAFETY_ENABLED /\ res.op = "reset_database")
          => /\ ~InSeq("drop_all", res.calls)
             /\ ~InSeq("create_tables", res.calls)
             /\ ~InSeq("seed_all", res.calls)
             /\ res.exc # NoExc

\* the part of C8 the code keeps: with the flag set nothing is dropped,
\* recreated or seeded
C8_NothingDropped ==
    (DB_SAFETY_ENABLED /\ res.op \in {"drop_tables", "engine.drop_tables",
                                       "reset_database"})
        => /\ ~InSeq("drop_all", res.calls)
           /\ ~InSeq("create_tables", res.calls)
           /\ ~InSeq("seed_all", res.calls)

C10_StructuredException ==
    (cli.entry = "manage.py" /\ cli.cmd \in {"init", "reset"} /\ cli.confirm
        /\ IsException(cli.raised))
        => (cli.raised.type = "DatabaseException"
               /\ cli.handler = "DatabaseException")

\* C13: every stored numeric limit and counter is non-negative: the plan
\* limits and price, the chat session's total_messages and total_tokens, and
\* the user's total_tokens_used.
C13_NonNegative ==
    /\ \A n \in plans :
          /\ PlanLimits(n).token_limit_daily >= 0
          /\ PlanLimits(n).document_limit >= 0
          /\ PlanLimits(n).session_limit >= 0
          /\ PlanLimits(n).price_monthly >= 0
    /\ \A c \in sessions : c.total_messages >= 0 /\ c.total_tokens >= 0
    /\ \A u \in users : u.total_tokens_used >= 0

\* C15: a run of the application's lifespan (startup, then exit) leaves the
\* tables, plans and users as they were and leaves the manager shut down.
C15_StartupFrame ==
    [][res'.op \in {"lifespan", "app_config.lifespan"}
          => /\ tables' = tables
             /\ plans' = plans
             /\ users' = users
             /\ ~is_initialized']_vars

\* C16: `db seed` on a reachable database that has its tables and the free
\* plan exits with code 0, and what it ran of seed_plans and create_test_user
\* it ran in that order and with effect.
C16_SeedCommand ==
    [][(/\ cli'.entry = "manage.py"
        /\ cli'.cmd = "seed"
        /\ cli'.faults = 0
        /\ ~cli'.interrupt
        /\ CoreTables \subseteq tables
        /\ "free" \in plans)
          => /\ cli'.exit_code = 0
             /\ \A i \in At("seed_plans", res'.calls) :
                   \A j \in At("create_test_user", res'.calls) : i < j
             /\ InSeq("create_test_user", res'.calls) => TestUserRow \in users']_vars

\* C17: `db health` and `db status` report healthy when the database is
\* reachable and has the three core tables, and never report healthy when a
\* core table is missing.
C17_ReportsActualState ==
    [][(/\ cli'.entry = "manage.py"
        /\ cli'.cmd \in {"health", "status"}
        /\ ~cli'.interrupt)
          => /\ res'.hi.healthy => CoreTables \subseteq tables
             /\ (cli'.faults = 0 /\ CoreTables \subseteq tables)
                   => res'.hi.healthy]_vars

\* C18: a failed setup_database leaves the engine shut down and raises a
\* DatabaseException coded DB_SETUP_FAILED.
C18_SetupFailure ==
    (res.op = "setup_database" /\ IsException(res.exc))
        => /\ ~is_initialized
           /\ engine # "live"
           /\ res.exc.type = "DatabaseException"
           /\ res.exc.code = "DB_SETUP_FAILED"

\* C19: is_initialized is true exactly when the most recent completed call
\* among initialize and shutdown was a successful initialize, an operation
\* that calls neither leaves it alone, and a repository call made while it is
\* false raises DB_ENGINE_NOT_INIT and leaves the stored rows alone.
C19_InitializedLifecycle ==
    [][/\ res'.op = "initialize" => (is_initialized' <=> res'.exc = NoExc)
       /\ res'.op = "shutdown" => ~is_initialized'
       /\ (~InSeq("initialize", res'.calls) /\ ~InSeq("shutdown", res'.calls))
             => is_initialized' = is_initialized
       /\ (/\ res'.op \in {"create", "create_many", "update", "delete",
                            "delete_many", "add_chat_session"}
           /\ ~is_initialized)
             => /\ res'.exc.type = "DatabaseException"
                /\ res'.exc.code = "DB_ENGINE_NOT_INIT"
                /\ users' = users
                /\ sessions' = sessions]_vars

\* C20 as stated: a session handed out to a repository call ends in exactly
\* one way, either committed and not rolled back or rolled back and not
\* committed, and is closed last.
C20_Original ==
    (/\ res.op \in {"create", "create_many", "update", "delete", "delete_many",
                     "add_chat_session"}
     /\ InSeq("session.close", res.calls))
        => /\ Cardinality(At("session.close", res.calls)) = 1
           /\ res.calls[Len(res.calls)] = "session.close"
           /\ InSeq("session.commit", res.calls)
                 # InSeq("session.rollback", res.calls)
           /\ InSeq("session.rollback", res.calls) <=> IsException(res.exc)

\* C20: a session handed out to a repository call is closed once, last.  It
\* is rolled back exactly when an exception leaves get_session, and then no
\* row is stored; a block that raised is never committed; commit and rollback
\* both happen only when the commit itself raised, commit first.
C20_SessionEnds ==
    [][(/\ res'.op \in {"create", "create_many", "update", "delete",
                         "delete_many", "add_chat_session"}
        /\ InSeq("session.close", res'.calls))
          => /\ Cardinality(At("session.close", res'.calls)) = 1
             /\ res'.calls[Len(res'.calls)] = "session.close"
             /\ Cardinality(At("session.commit", res'.calls)) <= 1
             /\ Cardinality(At("session.rollback", res'.calls)) <= 1
             /\ InSeq("session.rollback", res'.calls) <=> IsException(res'.exc)
             /\ IsException(res'.exc) => users' = users /\ sessions' = sessions
             /\ ~InSeq("session.commit", res'.calls)
                   => InSeq("session.rollback", res'.calls)
             /\ (/\ InSeq("session.commit", res'.calls)
                 /\ InSeq("session.rollback", res'.calls))
                   => /\ Before("session.commit", "session.rollback", res'.calls)
                      /\ res'.exc.type \in {"SQLAlchemyError", "IntegrityError"}]_vars

\* C20 witness: the block of a repository call completed, the commit raised
\* and the session was rolled back
C20_Witness ==
    /\ res.op = "update"
    /\ InSeq("session.commit", res.calls)
    /\ InSeq("session.rollback", res.calls)
    /\ IsException(res.exc)

\* C14: every chat session's user_id refers to an existing user, so a delete
\* or delete_many that removed users left no session of theirs.
C14_CascadeDelete ==
    \A c \in sessions : \E u \in users : u.username = c.user_id

\* C14 witness: a delete removed a user together with a session, and another
\* user's session stayed
C14_Witness ==
    /\ res.op = "delete"
    /\ res.exc = NoExc
    /\ res.del > 0
    /\ sessions # {}

\* a command-line run that sets the database up: `db init`, or the script's
\* full setup without --reset
SetupRun == cli.cmd \in {"init", "full"}

C11_CleanupOnce ==
    cli.entry # "none"
        => /\ Cardinality(At("cleanup", res.calls)) = 1
           /\ \A i \in At("cleanup", res.calls) :
                 \A j \in DOMAIN res.calls : j > i => res.calls[j] = "shutdown"
           /\ cli.exit_code = (IF IsException(cli.raised) THEN 1 ELSE 0)

\* C11 witness: the operation succeeded, the dispose inside cleanup failed
\* (the engine is still live at exit), and the run exits 0
C11_Witness ==
    /\ cli.entry = "manage.py"
    /\ cli.cmd = "init"
    /\ cli.raised = NoExc
    /\ cli.engine = "live"
    /\ cli.exit_code = 0

\* C21: a failed initialize leaves the engine uninitialized, has disposed an
\* engine the connection held unless that dispose itself failed, and raises a
\* DatabaseException coded DB_INIT_FAILED.
C21_InitializeFailure ==
    (res.op = "initialize" /\ IsException(res.exc))
        => /\ ~is_initialized
           /\ engine = "live" => "dispose" \in res.F
           /\ res.exc.type = "DatabaseException"
           /\ res.exc.code = "DB_INIT_FAILED"

\* C22: when a command has exited without an injected failure, every engine
\* that connect created during the run has been disposed.
C22_EnginesDisposed ==
    (cli.entry # "none" /\ cli.faults = 0) => cli.undisposed = 0

\* C23: reset_database runs drop_tables, create_tables and seed_all in that
\* order, each after the previous one succeeded; when it returns without error
\* the core tables exist and hold exactly the seed data; a failure surfaces
\* as a DatabaseException coded DB_RESET_FAILED.
C23_ResetDatabase ==
    res.op = "reset_database"
        => /\ Before("drop_tables", "create_tables", res.calls)
           /\ Before("create_tables", "seed_all", res.calls)
           /\ res.exc = NoExc
                 => /\ InSeq("seed_all", res.calls)
                    /\ tables = CoreTables
                    /\ plans = {"free"}
                    /\ users = {TestUserRow}
                    /\ sessions = {}
           /\ IsException(res.exc)
                 => /\ res.exc.type = "DatabaseException"
                    /\ res.exc.code = "DB_RESET_FAILED"

\* C24: when seed_all completes, the plan 'free' exists and the test user
\* refers to it; create_test_user called on an initialized engine while the
\* tables exist and no plan 'free' does raises NO_FREE_PLAN_FOUND and inserts
\* no user.
C24_PlansBeforeUsers ==
    [][/\ (res'.op = "seed_all" /\ res'.exc = NoExc)
             => /\ "free" \in plans'
                /\ \E u \in users' :
                      u.email = "test@example.com" /\ u.plan_id = "free"
                /\ Before("seed_plans", "create_test_user", res'.calls)
       /\ (/\ res'.op = "create_test_user"
           /\ res'.F = {}
           /\ is_initialized
           /\ CoreTables \subseteq tables
           /\ "free" \notin plans)
             => /\ res'.exc.type = "DatabaseException"
                /\ res'.exc.code = "NO_FREE_PLAN_FOUND"
                /\ users' = users]_vars

\* C25: no create_test_user call attempts an insert that violates a unique
\* constraint, and a call that repeats the arguments of the successful call
\* before it raises nothing and leaves the user table unchanged.
C25_NoDuplicateUser ==
    [][res'.op = "create_test_user"
          => /\ res'.exc.type # "IntegrityError"
             /\ (/\ res.op = "create_test_user"
                 /\ res.exc = NoExc
                 /\ res'.args = res.args
                 /\ res'.F = {})
                   => /\ res'.exc = NoExc
                      /\ res'.ins = 0
                      /\ users' = users]_vars

\* C26: when both concurrent seed runs have ended, the database holds the
\* plan 'free' and the test user, once each, and neither run failed.
C26_RaceFree ==
    (\A p \in {1, 2} : runs[p].pc \in {"done", "failed"})
        => /\ plans = {"free"}
           /\ users = {TestUserRow}
           /\ \A p \in {1, 2} : runs[p].pc = "done"

====
